---- MODULE Spec2Model ----
(***************************************************************************)
(* Mortgage scenario comparison (tweeres04/mortgage-scenarios).            *)
(*                                                                         *)
(* The model follows the refactored App component (src/unnamed/part_003):  *)
(* the amortization calculator, the scenario validator, the configuration  *)
(* load and the scenario registry (addScenario / removeScenario).          *)
(*                                                                         *)
(* Numbers.  The program computes in IEEE doubles; the model computes in   *)
(* fixed point.  A money amount is an integer count of 1/100000 of a       *)
(* currency unit, so the program's 0.005 threshold is 500.  An annual      *)
(* interest rate is an integer count of 1/100 of a percent (1200 = 12 %),  *)
(* so the monthly rate annualRate / 12 / 100 is annualRate / 120000.  A    *)
(* down payment percentage is an integer percent.  Every product and       *)
(* quotient is rounded to the nearest integer, as a double operation       *)
(* rounds to the nearest double.  The finite range of a double is          *)
(* modelled by FloatMax: a power that exceeds it is Infinity, and the      *)
(* quotient Infinity / Infinity is NaN.                                    *)
(***************************************************************************)
EXTENDS Integers, Sequences, FiniteSets, TLC

VARIABLES
    loadingConfig,       \* useState(true)
    configData,          \* useState(null): the loaded configuration
    configError,         \* useState(null): the load's error message
    fetchPc,             \* position of the fetch promise chain
    effectRan,           \* whether the effect on [configData] has run for it
    homePrice,           \* useState(0)
    initialInvestments,  \* useState(0)
    scenarios,           \* useState([]): the registry
    call,                \* the last Add or Remove click: inputs, locals, alert
    am,     \* the activation of calculateMortgageAmortization being stepped
    vl,     \* the application of validateScenarioInputs being checked
    en      \* the activation of the scenariosWithInvestment memo

appVars == <<loadingConfig, configData, configError, fetchPc, effectRan,
             homePrice, initialInvestments, scenarios, call>>

vars == <<appVars, am, vl, en>>

----------------------------------------------------------------------------
(* Arithmetic *)

Min(a, b) == IF a < b THEN a ELSE b

Max(a, b) == IF a > b THEN a ELSE b

\* <<q, r>> with a * b = q * c + r and 0 <= r < c, for 0 <= a < 2^23,
\* 0 < c < 2^23 and b >= 0.  When a * b does not fit the 32-bit integers of the
\* model checker, b is taken seven bits at a time, so that no intermediate
\* value leaves their range.
RECURSIVE MulDivQR(_, _, _)
MulDivQR(a, b, c) ==
    IF b = 0 THEN <<0, 0>>
    ELSE IF a <= 2147483647 \div b THEN <<(a * b) \div c, (a * b) % c>>
    ELSE LET h  == MulDivQR(a, b \div 128, c)
             rr == 128 * h[2] + a * (b % 128)
         IN  <<128 * h[1] + (rr \div c), rr % c>>

\* a * b / c rounded to the nearest integer (a, b >= 0, c > 0).
MulDiv(a, b, c) ==
    LET qr == MulDivQR(Min(a, b), Max(a, b), c)
    IN  qr[1] + (IF 2 * qr[2] >= c THEN 1 ELSE 0)

\* 0.005, the balance threshold of the amortization loop.  Money is a count
\* of units of 1 / am.scale: 1/100000 for every input but the end-to-end
\* example, whose amounts need the coarser unit of 1/1000 to fit the integers
\* of the model checker.
Threshold == (5 * am.scale) \div 1000

\* Denominator of the monthly rate: annualRate / 12 / 100 with annualRate in
\* 1/100 percent.
RateDen == 12 * 100 * 100

\* Scale of the fixed-point value of Math.pow(1 + monthlyRate, n).
PowScale == 10 ^ 6

\* Largest finite value of a power, in PowScale units.
FloatMax == 8 * PowScale

\* x * y for two powers in PowScale units: [finite, v], Infinity above FloatMax.
PowTimes(x, y) ==
    IF x > MulDivQR(FloatMax, PowScale, y)[1]
    THEN [finite |-> FALSE, v |-> 0]
    ELSE [finite |-> TRUE, v |-> MulDiv(x, y, PowScale)]

\* Math.pow(1 + monthlyRate, n), by repeated squaring: [finite, v] with v in
\* PowScale units.  A power above FloatMax is Infinity (finite = FALSE).
RECURSIVE Pow(_, _)
Pow(annualRate, n) ==
    IF n = 0 THEN [finite |-> TRUE, v |-> PowScale]
    ELSE LET h    == Pow(annualRate, n \div 2)
             sq   == PowTimes(h.v, h.v)
             base == PowScale + MulDiv(PowScale, annualRate, RateDen)
         IN  IF ~h.finite \/ ~sq.finite \/ annualRate > 7 * RateDen
             THEN [finite |-> FALSE, v |-> 0]
             ELSE IF n % 2 = 0 THEN sq ELSE PowTimes(sq.v, base)

----------------------------------------------------------------------------
(* calculateMortgageAmortization *)

\* The value null.
Null == [isNull |-> TRUE, yearlyData |-> <<>>, monthlyPayment |-> 0]

\* The basic validation, were the zero-principal case tested before it.
InvalidAfterZeroPrincipal(principal, annualRate, termYears) ==
    principal # 0 /\ (principal < 0 \/ annualRate < 0 \/ termYears <= 0)

\* The basic validation: negative values or a non-positive term.
InvalidAmortizationInput(principal, annualRate, termYears) ==
    principal < 0 \/ annualRate < 0 \/ termYears <= 0

\* The zero-principal case, were a non-zero rate rejected for it instead of
\* ignored.
ZeroPrincipalRejectsRate(annualRate) ==
    IF annualRate # 0 THEN Null
    ELSE [isNull |-> FALSE,
          yearlyData |-> << [year |-> 1, beginningBalance |-> 0,
                             interestPaidYearly |-> 0, principalPaidYearly |-> 0,
                             endingBalance |-> 0, totalPrincipalPaid |-> 0,
                             totalInterestPaid |-> 0, annualCost |-> 0] >>,
          monthlyPayment |-> 0]

\* The schedule of a zero-principal loan: one all-zero record for year 1.
\* A non-zero rate is ignored (set to 0), never rejected.
ZeroPrincipalResult(annualRate) ==
    [isNull |-> FALSE,
     yearlyData |-> << [year |-> 1, beginningBalance |-> 0,
                        interestPaidYearly |-> 0, principalPaidYearly |-> 0,
                        endingBalance |-> 0, totalPrincipalPaid |-> 0,
                        totalInterestPaid |-> 0, annualCost |-> 0] >>,
     monthlyPayment |-> 0]

\* The level monthly payment, were the power missing from the numerator:
\* principal * monthlyRate / (pow - 1).
MonthlyPaymentNoPower(principal, annualRate, termYears) ==
    LET numberOfPayments == termYears * 12
        pow              == Pow(annualRate, numberOfPayments)
    IN  IF annualRate = 0
        THEN [finite |-> TRUE, v |-> MulDiv(principal, 1, numberOfPayments)]
        ELSE IF ~pow.finite \/ pow.v = PowScale
             THEN [finite |-> FALSE, v |-> 0]
             ELSE [finite |-> TRUE,
                   v |-> MulDiv(MulDiv(principal, PowScale, pow.v - PowScale),
                                annualRate, RateDen)]

\* The level monthly payment: [finite, v].  With a zero monthly rate it is
\* principal / numberOfPayments; otherwise
\* principal * (monthlyRate * pow) / (pow - 1) with pow = (1 + monthlyRate)^n,
\* which is NaN when pow is Infinity and Infinity when pow - 1 is 0.
MonthlyPaymentOf(principal, annualRate, termYears) ==
    LET numberOfPayments == termYears * 12
        pow              == Pow(annualRate, numberOfPayments)
    IN  IF annualRate = 0
        THEN [finite |-> TRUE, v |-> MulDiv(principal, 1, numberOfPayments)]
        ELSE IF ~pow.finite \/ pow.v = PowScale
             THEN [finite |-> FALSE, v |-> 0]
             ELSE [finite |-> TRUE,
                   v |-> MulDiv(MulDiv(principal, pow.v, pow.v - PowScale),
                                annualRate, RateDen)]

\* One pass of the body of the month loop, after its break test:
\* m = [balance, interestPaidYearly, principalPaidYearly].
MonthBody(m, annualRate, monthlyPayment) ==
    LET interest0  == IF annualRate = 0 THEN 0
                      ELSE MulDiv(m.balance, annualRate, RateDen)
        principal0 == IF annualRate = 0 THEN Min(m.balance, monthlyPayment)
                      ELSE monthlyPayment - interest0
        overshoot  == principal0 > m.balance
        principalForMonth == IF overshoot THEN m.balance ELSE principal0
        interest1  == IF ~overshoot THEN interest0
                      ELSE IF annualRate = 0 THEN 0
                      ELSE MulDiv(m.balance, annualRate, RateDen)
        interestForMonth == IF overshoot /\ interest1 < 0 THEN 0 ELSE interest1
        balance1   == m.balance - principalForMonth
    IN  [balance |-> IF balance1 < Threshold THEN 0 ELSE balance1,
         interestPaidYearly  |-> m.interestPaidYearly + interestForMonth,
         principalPaidYearly |-> m.principalPaidYearly + principalForMonth]

\* One pass of the month loop: its break test (the term is over, or the
\* balance is <= 0.005), then its body.  After a break no later month runs, and
\* since a month changes neither the term nor a balance <= 0.005, a month
\* whose test breaks is a month that leaves m unchanged.
MonthPass(m, year, month, annualRate, termYears, monthlyPayment) ==
    IF (year - 1) * 12 + month > termYears * 12 \/ m.balance <= Threshold
    THEN m
    ELSE MonthBody(m, annualRate, monthlyPayment)

\* The passes of the month loop for the months from..to, split in halves to
\* bound the depth of the evaluation.
RECURSIVE MonthLoop(_, _, _, _, _, _, _)
MonthLoop(m, year, from, to, annualRate, termYears, monthlyPayment) ==
    IF from = to
    THEN MonthPass(m, year, from, annualRate, termYears, monthlyPayment)
    ELSE LET mid   == (from + to) \div 2
             first == MonthLoop(m, year, from, mid, annualRate, termYears,
                                monthlyPayment)
         IN  IF first.balance < 0 THEN first   \* never: a balance is >= 0
             ELSE MonthLoop(first, year, mid + 1, to, annualRate, termYears,
                            monthlyPayment)

\* One pass of the year loop, were beginningBalanceYear read after the month
\* loop instead of before it.
YearBodyLateBeginning(s, year, annualRate, termYears, monthlyPayment) ==
    LET m == MonthLoop([balance |-> s.balance, interestPaidYearly |-> 0,
                        principalPaidYearly |-> 0],
                       year, 1, 12, annualRate, termYears, monthlyPayment)
        totalPrincipalPaid == s.totalPrincipalPaid + m.principalPaidYearly
        totalInterestPaid  == s.totalInterestPaid + m.interestPaidYearly
    IN  [balance |-> m.balance,
         totalPrincipalPaid |-> totalPrincipalPaid,
         totalInterestPaid  |-> totalInterestPaid,
         yearlyData |-> Append(s.yearlyData,
             [year |-> year,
              beginningBalance    |-> m.balance,
              interestPaidYearly  |-> m.interestPaidYearly,
              principalPaidYearly |-> m.principalPaidYearly,
              endingBalance       |-> m.balance,
              totalPrincipalPaid  |-> totalPrincipalPaid,
              totalInterestPaid   |-> totalInterestPaid,
              annualCost |-> m.principalPaidYearly + m.interestPaidYearly])]

\* One pass of the year loop: run the months, add to the totals, push the
\* year's record.  s = [balance, yearlyData, totalPrincipalPaid,
\* totalInterestPaid].
YearBody(s, year, annualRate, termYears, monthlyPayment) ==
    LET m == MonthLoop([balance |-> s.balance, interestPaidYearly |-> 0,
                        principalPaidYearly |-> 0],
                       year, 1, 12, annualRate, termYears, monthlyPayment)
        totalPrincipalPaid == s.totalPrincipalPaid + m.principalPaidYearly
        totalInterestPaid  == s.totalInterestPaid + m.interestPaidYearly
    IN  [balance |-> m.balance,
         totalPrincipalPaid |-> totalPrincipalPaid,
         totalInterestPaid  |-> totalInterestPaid,
         yearlyData |-> Append(s.yearlyData,
             [year |-> year,
              beginningBalance    |-> s.balance,
              interestPaidYearly  |-> m.interestPaidYearly,
              principalPaidYearly |-> m.principalPaidYearly,
              endingBalance       |-> m.balance,
              totalPrincipalPaid  |-> totalPrincipalPaid,
              totalInterestPaid   |-> totalInterestPaid,
              annualCost |-> m.principalPaidYearly + m.interestPaidYearly])]

\* The state of the locals before the year loop.
LoopStart(principal) ==
    [balance |-> principal, yearlyData |-> <<>>,
     totalPrincipalPaid |-> 0, totalInterestPaid |-> 0]

\* Whether the year loop has left through its break: the last pushed record
\* ends with a balance <= 0.
Broke(s) == Len(s.yearlyData) > 0 /\ s.balance <= 0

\* The passes of the year loop for the years from..to, split in halves to
\* bound the depth of the evaluation; after the break no later year runs.
RECURSIVE YearLoop(_, _, _, _, _, _)
YearLoop(s, from, to, annualRate, termYears, monthlyPayment) ==
    IF from = to
    THEN IF Broke(s) THEN s
         ELSE YearBody(s, from, annualRate, termYears, monthlyPayment)
    ELSE LET mid   == (from + to) \div 2
             first == YearLoop(s, from, mid, annualRate, termYears,
                               monthlyPayment)
         IN  IF first.balance < 0 THEN first   \* never: a balance is >= 0
             ELSE YearLoop(first, mid + 1, to, annualRate, termYears,
                           monthlyPayment)

calculateMortgageAmortization(principal, annualRate, termYears) ==
    IF InvalidAmortizationInput(principal, annualRate, termYears) THEN Null
    ELSE IF principal = 0 THEN ZeroPrincipalResult(annualRate)
    ELSE LET mp == MonthlyPaymentOf(principal, annualRate, termYears)
         IN  IF ~mp.finite THEN Null
             ELSE [isNull |-> FALSE,
                   yearlyData |-> YearLoop(LoopStart(principal), 1, termYears,
                                           annualRate, termYears,
                                           mp.v).yearlyData,
                   monthlyPayment |-> mp.v]

\* The activation at its call.
AmortCall(principal, annualRate, termYears) ==
    [pc |-> "call", principal |-> principal, annualRate |-> annualRate,
     termYears |-> termYears, monthlyPayment |-> 0, year |-> 0,
     loop |-> LoopStart(0), result |-> Null, scale |-> 100000]

\* No activation.
AmortIdle == [AmortCall(0, 0, 0) EXCEPT !.pc = "idle"]

----------------------------------------------------------------------------
(* Strings: a string is the sequence of its characters *)

Whitespace == {" ", "\t"}

\* String.prototype.trim: drop the leading and the trailing whitespace.
RECURSIVE TrimStart(_)
TrimStart(str) ==
    IF Len(str) > 0 /\ Head(str) \in Whitespace THEN TrimStart(Tail(str))
    ELSE str

RECURSIVE TrimEnd(_)
TrimEnd(str) ==
    IF Len(str) > 0 /\ str[Len(str)] \in Whitespace
    THEN TrimEnd(SubSeq(str, 1, Len(str) - 1))
    ELSE str

Trim(str) == TrimEnd(TrimStart(str))

\* The decimal digits of n >= 0, as a string.
RECURSIVE NumberToString(_)
NumberToString(n) ==
    LET digit == <<"0", "1", "2", "3", "4", "5", "6", "7", "8", "9">>
    IN  IF n < 10 THEN <<digit[n + 1]>>
        ELSE NumberToString(n \div 10) \o <<digit[(n % 10) + 1]>>

\* The template literal `Scenario ${n}`.
DefaultScenarioName(n) ==
    <<"S", "c", "e", "n", "a", "r", "i", "o", " ">> \o NumberToString(n)

\* Array.prototype.includes.
Includes(seq, x) == \E i \in 1..Len(seq) : seq[i] = x

----------------------------------------------------------------------------
(* getActualDownPayment, validateScenarioInputs *)

\* x * (percent / 100), for x >= 0 and a percent of either sign.
PercentOf(x, percent) ==
    IF percent >= 0 THEN MulDiv(x, percent, 100)
    ELSE 0 - MulDiv(x, 0 - percent, 100)

\* getActualDownPayment with the two modes exchanged.
getActualDownPaymentSwapped(price, downPaymentInput, downPaymentType) ==
    IF downPaymentType = "amount" THEN PercentOf(price, downPaymentInput)
    ELSE downPaymentInput

\* The down payment in currency: the input itself in amount mode, the
\* percentage of the home price in percent mode.
getActualDownPayment(price, downPaymentInput, downPaymentType) ==
    IF downPaymentType = "amount" THEN downPaymentInput
    ELSE PercentOf(price, downPaymentInput)

MsgDuplicateName == "Scenario name already exists. Please choose a unique name."

MsgPercentRange == "Down payment percentage must be between 0 and 100."

MsgNegativeDownPayment == "Down payment cannot be negative."

MsgDownPaymentTooLarge == "Down payment cannot be greater than the home price."

MsgZeroPrincipalRate ==
    "If down payment covers the full home price (0 principal), the interest rate must be 0."

MsgNegativeRate == "Interest rate cannot be negative."

MsgTermNotPositive == "Term must be positive."

\* A failed validation: only isValid and message are set.
Invalid(message) ==
    [isValid |-> FALSE, message |-> message, hasValues |-> FALSE,
     actualDownPayment |-> 0, principal |-> 0, scenarioName |-> <<>>]

\* The name the validator resolves: the trimmed name, or "Scenario N" with
\* N = number of existing names + 1 when that is empty.
ResolvedName(existingScenarioNames, newName) ==
    IF Len(Trim(newName)) > 0 THEN Trim(newName)
    ELSE DefaultScenarioName(Len(existingScenarioNames) + 1)

\* The duplicate test of the validator: it is made only for a non-empty newName.
NameRejected(existingScenarioNames, newName) ==
    /\ Len(newName) > 0
    /\ Includes(existingScenarioNames,
                ResolvedName(existingScenarioNames, newName))

validateScenarioInputs(price, downPaymentInput, downPaymentType, interestRate, term, existingScenarioNames, newName) ==
    LET scenarioName == ResolvedName(existingScenarioNames, newName)
        actualDownPayment ==
            getActualDownPayment(price, downPaymentInput, downPaymentType)
        principal == price - actualDownPayment
    IN  IF NameRejected(existingScenarioNames, newName)
        THEN Invalid(MsgDuplicateName)
        ELSE IF downPaymentType = "percent"
                /\ (downPaymentInput < 0 \/ downPaymentInput > 100)
        THEN Invalid(MsgPercentRange)
        ELSE IF actualDownPayment < 0 THEN Invalid(MsgNegativeDownPayment)
        ELSE IF actualDownPayment > price
        THEN Invalid(MsgDownPaymentTooLarge)
        ELSE IF principal = 0 /\ interestRate # 0
        THEN Invalid(MsgZeroPrincipalRate)
        ELSE IF interestRate < 0 THEN Invalid(MsgNegativeRate)
        ELSE IF term <= 0 THEN Invalid(MsgTermNotPositive)
        ELSE [isValid |-> TRUE, message |-> "", hasValues |-> TRUE,
              actualDownPayment |-> actualDownPayment,
              principal |-> principal, scenarioName |-> scenarioName]

\* No application of the validator under check.
ValidateIdle ==
    [pc |-> "idle", homePrice |-> 0, downPaymentInput |-> 0,
     downPaymentType |-> "amount", interestRate |-> 0, term |-> 0,
     existingScenarioNames |-> <<>>, newName |-> <<>>,
     result |-> Invalid("")]

----------------------------------------------------------------------------
(* createInitialScenariosFromConfig *)

\* The scenario both loaders build from validated inputs and a schedule.
NewScenario(name, actualDownPayment, downPaymentInput, downPaymentType, interestRate, term, calculationResult) ==
    [name |-> name, downPayment |-> actualDownPayment,
     downPaymentInput |-> downPaymentInput,
     downPaymentType |-> downPaymentType, interestRate |-> interestRate,
     term |-> term, yearlyData |-> calculationResult.yearlyData,
     monthlyPayment |-> calculationResult.monthlyPayment]

\* One pass of the forEach: validate against an empty list of names, compute
\* the schedule, push the scenario under the configuration's own name, or skip.
ConfigPass(initialScenarios, hp, config) ==
    LET validation ==
            validateScenarioInputs(hp, config.downPaymentInput,
                                   config.downPaymentType, config.interestRate,
                                   config.term, <<>>, config.name)
        calculationResult ==
            calculateMortgageAmortization(validation.principal,
                                          config.interestRate, config.term)
    IN  IF ~validation.isValid \/ ~validation.hasValues THEN initialScenarios
        ELSE IF calculationResult.isNull THEN initialScenarios
        ELSE Append(initialScenarios,
                    NewScenario(config.name, validation.actualDownPayment,
                                config.downPaymentInput, config.downPaymentType,
                                config.interestRate, config.term,
                                calculationResult))

\* The forEach over the first n configured scenarios.
RECURSIVE ConfigLoop(_, _, _)
ConfigLoop(hp, initialScenarioConfigs, n) ==
    IF n = 0 THEN <<>>
    ELSE ConfigPass(ConfigLoop(hp, initialScenarioConfigs, n - 1), hp,
                    initialScenarioConfigs[n])

createInitialScenariosFromConfig(hp, initialScenarioConfigs) ==
    ConfigLoop(hp, initialScenarioConfigs, Len(initialScenarioConfigs))

----------------------------------------------------------------------------
(* App: the configuration load *)

\* Scenario entries a config.yaml may hold: a 20 % down payment at 6 % over two
\* years, a down payment of the full price at 0 % over one year under the same
\* name, and a 150 % down payment.
EntryA ==
    [name |-> <<"A">>, downPaymentInput |-> 20, downPaymentType |-> "percent",
     interestRate |-> 600, term |-> 2]

EntryPaid ==
    [name |-> <<"A">>, downPaymentInput |-> 120000,
     downPaymentType |-> "amount", interestRate |-> 0, term |-> 1]

EntryBad ==
    [name |-> <<"B">>, downPaymentInput |-> 150, downPaymentType |-> "percent",
     interestRate |-> 600, term |-> 1]

\* The initialScenarios lists of the configurations.
ConfigLists ==
    { <<>>, <<EntryA>>, <<EntryA, EntryPaid>>, <<EntryBad, EntryA>> }

\* The configurations that pass the structure test of the load.
Configs ==
    { [isNull |-> FALSE, homePrice |-> 120000, initialInvestments |-> 60000,
       initialScenarios |-> l] : l \in ConfigLists }

NoConfig ==
    [isNull |-> TRUE, homePrice |-> 0, initialInvestments |-> 0,
     initialScenarios |-> <<>>]

NoError == ""

NoCall ==
    [op |-> "none", newName |-> <<>>, validation |-> Invalid(""),
     calculation |-> "not attempted", alert |-> "", index |-> 0]

\* The state after the first render: the fetch is under way.
Mounted ==
    /\ loadingConfig = TRUE
    /\ configData = NoConfig
    /\ configError = NoError
    /\ fetchPc = "fetching"
    /\ effectRan = FALSE
    /\ homePrice = 0
    /\ initialInvestments = 0
    /\ scenarios = <<>>
    /\ call = NoCall

\* The component is not mounted (the specifications of the pure functions).
AppIdle ==
    /\ loadingConfig = TRUE
    /\ configData = NoConfig
    /\ configError = NoError
    /\ fetchPc = "unmounted"
    /\ effectRan = FALSE
    /\ homePrice = 0
    /\ initialInvestments = 0
    /\ scenarios = <<>>
    /\ call = NoCall

\* fetch rejects, or the response is not ok and the first then throws: the
\* catch sets the error.
FetchFailed ==
    /\ fetchPc = "fetching"
    /\ configError' = "Error fetching config.yaml"
    /\ fetchPc' = "finally"
    /\ UNCHANGED <<loadingConfig, configData, effectRan, homePrice,
                   initialInvestments, scenarios, call>>

\* The YAML does not parse or fails the structure test: the inner catch sets
\* the error.
ParseFailed ==
    /\ fetchPc = "fetching"
    /\ configError' = "Error parsing config.yaml"
    /\ fetchPc' = "finally"
    /\ UNCHANGED <<loadingConfig, configData, effectRan, homePrice,
                   initialInvestments, scenarios, call>>

\* The YAML parses and passes the structure test.
ParseSucceeded(loadedConfig) ==
    /\ fetchPc = "fetching"
    /\ configData' = loadedConfig
    /\ fetchPc' = "finally"
    /\ UNCHANGED <<loadingConfig, configError, effectRan, homePrice,
                   initialInvestments, scenarios, call>>

\* The finally of the promise chain, were setLoadingConfig(false) missing
\* from it.
FetchFinallyStillLoading ==
    /\ fetchPc = "finally"
    /\ fetchPc' = "settled"
    /\ UNCHANGED <<loadingConfig, configData, configError, effectRan, homePrice,
                   initialInvestments, scenarios, call>>

\* The finally of the promise chain.
FetchFinally ==
    /\ fetchPc = "finally"
    /\ loadingConfig' = FALSE
    /\ fetchPc' = "settled"
    /\ UNCHANGED <<configData, configError, effectRan, homePrice,
                   initialInvestments, scenarios, call>>

\* The effect on [configData], once the configuration is set.
ConfigEffect ==
    /\ ~configData.isNull
    /\ ~effectRan
    /\ homePrice' = configData.homePrice
    /\ initialInvestments' = configData.initialInvestments
    /\ scenarios' = createInitialScenariosFromConfig(configData.homePrice,
                                                     configData.initialScenarios)
    /\ effectRan' = TRUE
    /\ UNCHANGED <<loadingConfig, configData, configError, fetchPc, call>>

\* The form and the scenario cards are rendered, and React has flushed the
\* effects of the render before it handles an event.
Rendered ==
    /\ ~loadingConfig
    /\ configError = NoError
    /\ ~configData.isNull
    /\ effectRan

----------------------------------------------------------------------------
(* App: addScenario, removeScenario *)

\* Most scenarios the registry holds in the model.
MaxScenarios == 2

\* What the form can hold when Add is clicked.
NameInputs == { <<>>, <<" ">>, <<"A">>, <<" ", "A">> }

DownPaymentTypes == {"amount", "percent"}

DownPaymentInputs == {20}

RateInputs == {0, 120000}

TermInputs == {0, 1}

MsgCalculationFailed ==
    "Could not calculate mortgage amortization. Please check input values."

\* scenarios.map((s) => s.name)
RECURSIVE Names(_)
Names(ss) ==
    IF Len(ss) = 0 THEN <<>>
    ELSE Names(SubSeq(ss, 1, Len(ss) - 1)) \o <<ss[Len(ss)].name>>

\* addScenario's outcome, were the `return` after the calculation-failed alert
\* missing: the scenario is appended although its schedule is null.
AddOutcomeNoReturn(ss, validation, calculationResult, newScenario) ==
    IF ~validation.isValid \/ ~validation.hasValues
    THEN [scenarios |-> ss, calculation |-> "not attempted",
          alert |-> validation.message]
    ELSE IF calculationResult.isNull
    THEN [scenarios |-> Append(ss, newScenario), calculation |-> "null",
          alert |-> MsgCalculationFailed]
    ELSE [scenarios |-> Append(ss, newScenario), calculation |-> "returned",
          alert |-> ""]

\* addScenario's outcome, were the new scenario put first:
\* setScenarios([newScenario, ...scenarios]).
AddOutcomePrepend(ss, validation, calculationResult, newScenario) ==
    IF ~validation.isValid \/ ~validation.hasValues
    THEN [scenarios |-> ss, calculation |-> "not attempted",
          alert |-> validation.message]
    ELSE IF calculationResult.isNull
    THEN [scenarios |-> ss, calculation |-> "null",
          alert |-> MsgCalculationFailed]
    ELSE [scenarios |-> <<newScenario>> \o ss, calculation |-> "returned",
          alert |-> ""]

\* What addScenario does with the validation and the schedule: alert and
\* return when the validation failed (the schedule is then never computed),
\* alert and return when the schedule is null, append otherwise.
AddOutcome(ss, validation, calculationResult, newScenario) ==
    IF ~validation.isValid \/ ~validation.hasValues
    THEN [scenarios |-> ss, calculation |-> "not attempted",
          alert |-> validation.message]
    ELSE IF calculationResult.isNull
    THEN [scenarios |-> ss, calculation |-> "null",
          alert |-> MsgCalculationFailed]
    ELSE [scenarios |-> Append(ss, newScenario), calculation |-> "returned",
          alert |-> ""]

\* The Add button's handler, with the form holding the given values.
addScenario(newScenarioName, newDownPaymentType, newDownPaymentValue, newInterestRate, newTerm) ==
    LET validation ==
            validateScenarioInputs(homePrice, newDownPaymentValue,
                                   newDownPaymentType, newInterestRate, newTerm,
                                   Names(scenarios), newScenarioName)
        calculationResult ==
            calculateMortgageAmortization(validation.principal, newInterestRate,
                                          newTerm)
        newScenario ==
            NewScenario(validation.scenarioName, validation.actualDownPayment,
                        newDownPaymentValue, newDownPaymentType,
                        newInterestRate, newTerm, calculationResult)
        outcome == AddOutcome(scenarios, validation, calculationResult,
                              newScenario)
    IN  /\ Rendered
        /\ Len(outcome.scenarios) <= MaxScenarios
        /\ scenarios' = outcome.scenarios
        /\ call' = [op |-> "addScenario", newName |-> newScenarioName,
                    validation |-> validation,
                    calculation |-> outcome.calculation,
                    alert |-> outcome.alert, index |-> 0]
        /\ UNCHANGED <<loadingConfig, configData, configError, fetchPc,
                       effectRan, homePrice, initialInvestments>>

\* The filter, were the index compared 1-based: index + 1 !== indexToRemove.
RemoveAtOneBased(ss, indexToRemove) ==
    LET keep == {i \in 1..Len(ss) : i # indexToRemove}
        pos(k) == CHOOSE i \in keep : Cardinality({j \in keep : j < i}) = k - 1
    IN  [k \in 1..Cardinality(keep) |-> ss[pos(k)]]

\* scenarios.filter((_, index) => index !== indexToRemove), 0-based.
RemoveAt(ss, indexToRemove) ==
    LET keep == {i \in 1..Len(ss) : i - 1 # indexToRemove}
        pos(k) == CHOOSE i \in keep : Cardinality({j \in keep : j < i}) = k - 1
    IN  [k \in 1..Cardinality(keep) |-> ss[pos(k)]]

\* The Remove button's handler.
removeScenario(indexToRemove) ==
    /\ Rendered
    /\ scenarios' = RemoveAt(scenarios, indexToRemove)
    /\ call' = [NoCall EXCEPT !.op = "removeScenario", !.index = indexToRemove]
    /\ UNCHANGED <<loadingConfig, configData, configError, fetchPc, effectRan,
                   homePrice, initialInvestments>>

----------------------------------------------------------------------------
(* The investment comparison: scenariosWithInvestment and its helpers *)

\* const INVESTMENT_RATE = 0.07, in percent.
INVESTMENT_RATE == 7

\* A performance percentage is a count of 1/1000 of a percent.
PercentScale == 1000

\* The horizon, were the floor of 30 years missing:
\* Math.max(...scenarios.map((s) => s.term)).
RECURSIVE maxYearsNoFloor(_)
maxYearsNoFloor(ss) ==
    IF Len(ss) = 0 THEN 0
    ELSE Max(maxYearsNoFloor(SubSeq(ss, 1, Len(ss) - 1)), ss[Len(ss)].term)

\* Math.max(30, ...scenarios.map((s) => s.term))
RECURSIVE maxYears(_)
maxYears(ss) ==
    IF Len(ss) = 0 THEN 30
    ELSE Max(maxYears(SubSeq(ss, 1, Len(ss) - 1)), ss[Len(ss)].term)

\* yearlyData.find((d) => d.year === year): the index of the first record of
\* that year, 0 when there is none (undefined).
Find(yearlyData, year) ==
    LET found == {i \in 1..Len(yearlyData) : yearlyData[i].year = year}
    IN  IF found = {} THEN 0
        ELSE CHOOSE i \in found : \A j \in found : i <= j

\* One record of the copy JSON.parse(JSON.stringify(...)) makes: the eight
\* fields of the schedule; the investment fields and performancePercentage
\* are undefined (hasUpdate, hasPerformance) until the run assigns them.
CopyRecord(d) ==
    [year |-> d.year, beginningBalance |-> d.beginningBalance,
     interestPaidYearly |-> d.interestPaidYearly,
     principalPaidYearly |-> d.principalPaidYearly,
     endingBalance |-> d.endingBalance,
     totalPrincipalPaid |-> d.totalPrincipalPaid,
     totalInterestPaid |-> d.totalInterestPaid, annualCost |-> d.annualCost,
     hasUpdate |-> FALSE, investmentDifference |-> 0,
     cumulativeInvestmentValue |-> 0, investmentProfitYearly |-> 0,
     totalNetWorth |-> 0, netWorthDifference |-> 0,
     hasPerformance |-> FALSE, performancePercentage |-> 0]

CopyScenario(sc) ==
    [sc EXCEPT !.yearlyData = [i \in 1..Len(sc.yearlyData) |->
                                  CopyRecord(sc.yearlyData[i])]]

\* A shallow copy, [...scenarios]: the same scenario objects.
ShallowCopy(ss) ==
    [scenarios |-> [i \in 1..Len(ss) |-> CopyScenario(ss[i])],
     shared |-> TRUE]

\* The copy shares no object with the registry.
DeepCopy(ss) ==
    [scenarios |-> [i \in 1..Len(ss) |-> CopyScenario(ss[i])],
     shared |-> FALSE]

\* The names that key initialInvestmentValues and currentCumulativeValues.
NameKeys(ss) == {ss[i].name : i \in 1..Len(ss)}

\* initialInvestmentValues after the forEach: a later scenario of the same
\* name overwrites the entry of an earlier one.
InitialInvestmentValues(ss, investments) ==
    [n \in NameKeys(ss) |->
        LET last == CHOOSE i \in 1..Len(ss) :
                        /\ ss[i].name = n
                        /\ \A j \in 1..Len(ss) : ss[j].name = n => j <= i
        IN  Max(0, investments - ss[last].downPayment)]

\* Step 1 of a year, were the cost of the last active scenario taken instead
\* of the largest.
RECURSIVE LastAnnualCost(_, _, _)
LastAnnualCost(ss, n, year) ==
    IF n = 0 THEN 0
    ELSE LET rest == LastAnnualCost(ss, n - 1, year)
             k    == Find(ss[n].yearlyData, year)
         IN  IF k # 0 /\ ss[n].term >= year
             THEN ss[n].yearlyData[k].annualCost
             ELSE rest

\* Step 1 of a year: the largest annualCost among the scenarios that have a
\* record for the year and whose term covers it, starting from 0.
RECURSIVE MaxAnnualCost(_, _, _)
MaxAnnualCost(ss, n, year) ==
    IF n = 0 THEN 0
    ELSE LET rest == MaxAnnualCost(ss, n - 1, year)
             k    == Find(ss[n].yearlyData, year)
         IN  IF k # 0 /\ ss[n].term >= year
             THEN Max(rest, ss[n].yearlyData[k].annualCost)
             ELSE rest

\* calculateYearlyScenarioUpdate, were the down payment left out of the net
\* worth.
calculateYearlyScenarioUpdateNoDownPayment(scenario, year, maxAnnualCost, previousCumulativeValue, initialInvestmentValue, investmentRate) ==
    LET yd == scenario.yearlyData
        k  == Find(yd, year)
        kp == Find(yd, year - 1)
        yearlyProfit == MulDiv(previousCumulativeValue, investmentRate, 100)
        grown == MulDiv(previousCumulativeValue, 100 + investmentRate, 100)
        active == k # 0 /\ scenario.term >= year
        investmentAmount ==
            IF active /\ maxAnnualCost > 0
            THEN maxAnnualCost - yd[k].annualCost ELSE 0
        currentCumulativeValue == grown + investmentAmount
        carriedPrincipal == IF kp # 0 THEN yd[kp].totalPrincipalPaid ELSE 0
        carriedInterest  == IF kp # 0 THEN yd[kp].totalInterestPaid ELSE 0
        totalPrincipalPaid ==
            IF active THEN yd[k].totalPrincipalPaid
            ELSE IF Len(yd) > 0 THEN yd[Len(yd)].totalPrincipalPaid
            ELSE carriedPrincipal
        totalInterestPaid ==
            IF active THEN yd[k].totalInterestPaid
            ELSE IF Len(yd) > 0 THEN yd[Len(yd)].totalInterestPaid
            ELSE carriedInterest
        totalNetWorth ==
            totalPrincipalPaid + currentCumulativeValue
        prevNetWorth ==
            IF year = 1 THEN scenario.downPayment + initialInvestmentValue
            ELSE IF kp # 0 /\ yd[kp].hasUpdate THEN yd[kp].totalNetWorth
            ELSE 0
    IN  [investmentDifference |-> investmentAmount,
         cumulativeInvestmentValue |-> currentCumulativeValue,
         investmentProfitYearly |-> yearlyProfit,
         totalNetWorth |-> totalNetWorth,
         netWorthDifference |-> totalNetWorth - prevNetWorth,
         totalPrincipalPaid |-> totalPrincipalPaid,
         totalInterestPaid |-> totalInterestPaid]

\* calculateYearlyScenarioUpdate, were the principal paid of an ended
\* scenario not carried over from its last record.
calculateYearlyScenarioUpdateForgetsPrincipal(scenario, year, maxAnnualCost, previousCumulativeValue, initialInvestmentValue, investmentRate) ==
    LET yd == scenario.yearlyData
        k  == Find(yd, year)
        kp == Find(yd, year - 1)
        yearlyProfit == MulDiv(previousCumulativeValue, investmentRate, 100)
        grown == MulDiv(previousCumulativeValue, 100 + investmentRate, 100)
        active == k # 0 /\ scenario.term >= year
        investmentAmount ==
            IF active /\ maxAnnualCost > 0
            THEN maxAnnualCost - yd[k].annualCost ELSE 0
        currentCumulativeValue == grown + investmentAmount
        carriedPrincipal == IF kp # 0 THEN yd[kp].totalPrincipalPaid ELSE 0
        carriedInterest  == IF kp # 0 THEN yd[kp].totalInterestPaid ELSE 0
        totalPrincipalPaid ==
            IF active THEN yd[k].totalPrincipalPaid
            ELSE 0
        totalInterestPaid ==
            IF active THEN yd[k].totalInterestPaid
            ELSE IF Len(yd) > 0 THEN yd[Len(yd)].totalInterestPaid
            ELSE carriedInterest
        totalNetWorth ==
            scenario.downPayment + totalPrincipalPaid + currentCumulativeValue
        prevNetWorth ==
            IF year = 1 THEN scenario.downPayment + initialInvestmentValue
            ELSE IF kp # 0 /\ yd[kp].hasUpdate THEN yd[kp].totalNetWorth
            ELSE 0
    IN  [investmentDifference |-> investmentAmount,
         cumulativeInvestmentValue |-> currentCumulativeValue,
         investmentProfitYearly |-> yearlyProfit,
         totalNetWorth |-> totalNetWorth,
         netWorthDifference |-> totalNetWorth - prevNetWorth,
         totalPrincipalPaid |-> totalPrincipalPaid,
         totalInterestPaid |-> totalInterestPaid]

\* The update of one scenario for one year: investment, cumulative value,
\* net worth and its change, carried totals.
calculateYearlyScenarioUpdate(scenario, year, maxAnnualCost, previousCumulativeValue, initialInvestmentValue, investmentRate) ==
    LET yd == scenario.yearlyData
        k  == Find(yd, year)
        kp == Find(yd, year - 1)
        yearlyProfit == MulDiv(previousCumulativeValue, investmentRate, 100)
        grown == MulDiv(previousCumulativeValue, 100 + investmentRate, 100)
        active == k # 0 /\ scenario.term >= year
        investmentAmount ==
            IF active /\ maxAnnualCost > 0
            THEN maxAnnualCost - yd[k].annualCost ELSE 0
        currentCumulativeValue == grown + investmentAmount
        carriedPrincipal == IF kp # 0 THEN yd[kp].totalPrincipalPaid ELSE 0
        carriedInterest  == IF kp # 0 THEN yd[kp].totalInterestPaid ELSE 0
        totalPrincipalPaid ==
            IF active THEN yd[k].totalPrincipalPaid
            ELSE IF Len(yd) > 0 THEN yd[Len(yd)].totalPrincipalPaid
            ELSE carriedPrincipal
        totalInterestPaid ==
            IF active THEN yd[k].totalInterestPaid
            ELSE IF Len(yd) > 0 THEN yd[Len(yd)].totalInterestPaid
            ELSE carriedInterest
        totalNetWorth ==
            scenario.downPayment + totalPrincipalPaid + currentCumulativeValue
        prevNetWorth ==
            IF year = 1 THEN scenario.downPayment + initialInvestmentValue
            ELSE IF kp # 0 /\ yd[kp].hasUpdate THEN yd[kp].totalNetWorth
            ELSE 0
    IN  [investmentDifference |-> investmentAmount,
         cumulativeInvestmentValue |-> currentCumulativeValue,
         investmentProfitYearly |-> yearlyProfit,
         totalNetWorth |-> totalNetWorth,
         netWorthDifference |-> totalNetWorth - prevNetWorth,
         totalPrincipalPaid |-> totalPrincipalPaid,
         totalInterestPaid |-> totalInterestPaid]

\* ensureYearlyDataExists, were the placeholder made of zeros only, the
\* calculated update left out of it.
ensureYearlyDataExistsZeros(scenario, year, calculatedUpdate) ==
    LET yd == scenario.yearlyData
        k  == Find(yd, year)
        u  == calculatedUpdate
    IN  IF k = 0
        THEN [scenario EXCEPT !.yearlyData = Append(yd,
                 [year |-> year, beginningBalance |-> 0,
                  interestPaidYearly |-> 0, principalPaidYearly |-> 0,
                  endingBalance |-> 0, annualCost |-> 0,
                  totalPrincipalPaid |-> 0, totalInterestPaid |-> 0,
                  hasUpdate |-> TRUE, investmentDifference |-> 0,
                  cumulativeInvestmentValue |-> 0,
                  investmentProfitYearly |-> 0, totalNetWorth |-> 0,
                  netWorthDifference |-> 0,
                  hasPerformance |-> FALSE, performancePercentage |-> 0])]
        ELSE [scenario EXCEPT !.yearlyData[k] =
                 [@ EXCEPT !.hasUpdate = TRUE,
                           !.investmentDifference = u.investmentDifference,
                           !.cumulativeInvestmentValue =
                               u.cumulativeInvestmentValue,
                           !.investmentProfitYearly = u.investmentProfitYearly,
                           !.totalNetWorth = u.totalNetWorth,
                           !.netWorthDifference = u.netWorthDifference,
                           !.totalPrincipalPaid = u.totalPrincipalPaid,
                           !.totalInterestPaid = u.totalInterestPaid]]

\* The scenario after ensureYearlyDataExists: a placeholder pushed for a
\* missing year, the update assigned to the record of an existing one.
ensureYearlyDataExists(scenario, year, calculatedUpdate) ==
    LET yd == scenario.yearlyData
        k  == Find(yd, year)
        u  == calculatedUpdate
    IN  IF k = 0
        THEN [scenario EXCEPT !.yearlyData = Append(yd,
                 [year |-> year, beginningBalance |-> 0,
                  interestPaidYearly |-> 0, principalPaidYearly |-> 0,
                  endingBalance |-> 0, annualCost |-> 0,
                  totalPrincipalPaid |-> u.totalPrincipalPaid,
                  totalInterestPaid |-> u.totalInterestPaid,
                  hasUpdate |-> TRUE,
                  investmentDifference |-> u.investmentDifference,
                  cumulativeInvestmentValue |-> u.cumulativeInvestmentValue,
                  investmentProfitYearly |-> u.investmentProfitYearly,
                  totalNetWorth |-> u.totalNetWorth,
                  netWorthDifference |-> u.netWorthDifference,
                  hasPerformance |-> FALSE, performancePercentage |-> 0])]
        ELSE [scenario EXCEPT !.yearlyData[k] =
                 [@ EXCEPT !.hasUpdate = TRUE,
                           !.investmentDifference = u.investmentDifference,
                           !.cumulativeInvestmentValue =
                               u.cumulativeInvestmentValue,
                           !.investmentProfitYearly = u.investmentProfitYearly,
                           !.totalNetWorth = u.totalNetWorth,
                           !.netWorthDifference = u.netWorthDifference,
                           !.totalPrincipalPaid = u.totalPrincipalPaid,
                           !.totalInterestPaid = u.totalInterestPaid]]

\* maxNetWorthThisYear before any scenario of the year: -Infinity.
NegInfinity == [finite |-> FALSE, v |-> 0]

\* Math.max(maxNetWorthThisYear, totalNetWorth)
MaxNetWorth(m, totalNetWorth) ==
    IF ~m.finite THEN [finite |-> TRUE, v |-> totalNetWorth]
    ELSE [finite |-> TRUE, v |-> Max(m.v, totalNetWorth)]

\* Step 2 of a year for the scenarios 1..n in order.  st = [processed,
\* currentCumulativeValues, maxNetWorthThisYear]; the cumulative values are
\* keyed by name, so scenarios of one name read and write one entry.
RECURSIVE ScenarioPasses(_, _, _, _, _)
ScenarioPasses(st, n, year, maxAnnualCost, initialInvestmentValues) ==
    IF n = 0 THEN st
    ELSE LET before   == ScenarioPasses(st, n - 1, year, maxAnnualCost,
                                        initialInvestmentValues)
             scenario == before.processed[n]
             calculatedUpdate ==
                 calculateYearlyScenarioUpdate(
                     scenario, year, maxAnnualCost,
                     before.currentCumulativeValues[scenario.name],
                     initialInvestmentValues[scenario.name], INVESTMENT_RATE)
             updated  == ensureYearlyDataExists(scenario, year,
                                                calculatedUpdate)
             updatedDataForYear ==
                 updated.yearlyData[Find(updated.yearlyData, year)]
         IN  [processed |-> [before.processed EXCEPT ![n] = updated],
              currentCumulativeValues |->
                  [before.currentCumulativeValues EXCEPT ![scenario.name] =
                      updatedDataForYear.cumulativeInvestmentValue],
              maxNetWorthThisYear |->
                  MaxNetWorth(before.maxNetWorthThisYear,
                              updatedDataForYear.totalNetWorth)]

\* The percentage, were the difference taken the other way round.
PerformanceReversed(totalNetWorth, maxNetWorthThisYear) ==
    LET denominator == IF maxNetWorthThisYear < 0 THEN 0 - maxNetWorthThisYear
                       ELSE maxNetWorthThisYear
        difference  == maxNetWorthThisYear - totalNetWorth
    IN  IF denominator = 0
        THEN IF totalNetWorth = 0 THEN 0 ELSE 100 * PercentScale
        ELSE IF difference >= 0
        THEN MulDiv(difference, 100 * PercentScale, denominator)
        ELSE 0 - MulDiv(0 - difference, 100 * PercentScale, denominator)

\* ((totalNetWorth - max) / |max|) * 100, capped at +-100 when it is not
\* finite (a zero denominator with a non-zero net worth gives Infinity).
Performance(totalNetWorth, maxNetWorthThisYear) ==
    LET denominator == IF maxNetWorthThisYear < 0 THEN 0 - maxNetWorthThisYear
                       ELSE maxNetWorthThisYear
        difference  == totalNetWorth - maxNetWorthThisYear
    IN  IF denominator = 0
        THEN IF totalNetWorth = 0 THEN 0 ELSE 100 * PercentScale
        ELSE IF difference >= 0
        THEN MulDiv(difference, 100 * PercentScale, denominator)
        ELSE 0 - MulDiv(0 - difference, 100 * PercentScale, denominator)

\* Step 3 of a year: performancePercentage of every scenario's record.
calculatePerformancePercentage(processedScenarios, year, maxNetWorthThisYear) ==
    [i \in 1..Len(processedScenarios) |->
        LET scenario == processedScenarios[i]
            k == Find(scenario.yearlyData, year)
        IN  IF k = 0 THEN scenario
            ELSE [scenario EXCEPT !.yearlyData[k] =
                    [@ EXCEPT !.hasPerformance = TRUE,
                              !.performancePercentage =
                                  IF ~maxNetWorthThisYear.finite THEN 0
                                  ELSE IF scenario.yearlyData[k].hasUpdate
                                  THEN Performance(scenario.yearlyData[k]
                                                       .totalNetWorth,
                                                   maxNetWorthThisYear.v)
                                  ELSE 0]]]

\* One pass of the year loop of scenariosWithInvestment.
EngineYearPass(processedScenarios, currentCumulativeValues, initialInvestmentValues, year) ==
    LET maxAnnualCost ==
            MaxAnnualCost(processedScenarios, Len(processedScenarios), year)
        st == ScenarioPasses(
                  [processed |-> processedScenarios,
                   currentCumulativeValues |-> currentCumulativeValues,
                   maxNetWorthThisYear |-> NegInfinity],
                  Len(processedScenarios), year, maxAnnualCost,
                  initialInvestmentValues)
    IN  [processed |-> calculatePerformancePercentage(
                           st.processed, year, st.maxNetWorthThisYear),
         currentCumulativeValues |-> st.currentCumulativeValues]

----------------------------------------------------------------------------
(* scenariosWithInvestment of src/src/App.tsx, computed inline *)

\* Step 2 of a year of the inline computation for the scenarios 1..n in
\* order.  A scenario without a record for the year gets a placeholder only
\* when its term is below the year; with a record it is updated in place;
\* without a record and with a term that covers the year it is passed over.
RECURSIVE InlineScenarioPasses(_, _, _, _, _)
InlineScenarioPasses(st, n, year, maxAnnualCost, initialInvestmentValues) ==
    IF n = 0 THEN st
    ELSE LET before   == InlineScenarioPasses(st, n - 1, year, maxAnnualCost,
                                              initialInvestmentValues)
             scenario == before.processed[n]
             yd == scenario.yearlyData
             k  == Find(yd, year)
             kp == Find(yd, year - 1)
             previousCumulativeValue ==
                 before.currentCumulativeValues[scenario.name]
             yearlyProfit ==
                 MulDiv(previousCumulativeValue, INVESTMENT_RATE, 100)
             grown ==
                 MulDiv(previousCumulativeValue, 100 + INVESTMENT_RATE, 100)
             prevNetWorth ==
                 IF year = 1
                 THEN scenario.downPayment
                        + initialInvestmentValues[scenario.name]
                 ELSE IF kp # 0 /\ yd[kp].hasUpdate THEN yd[kp].totalNetWorth
                 ELSE 0
             lastTotalPrincipalPaid ==
                 IF Len(yd) > 0 THEN yd[Len(yd)].totalPrincipalPaid ELSE 0
             lastTotalInterestPaid ==
                 IF Len(yd) > 0 THEN yd[Len(yd)].totalInterestPaid ELSE 0
             netWorthForEndedYear ==
                 scenario.downPayment + lastTotalPrincipalPaid + grown
             investmentAmount ==
                 IF k # 0 /\ scenario.term >= year /\ maxAnnualCost > 0
                 THEN maxAnnualCost - yd[k].annualCost ELSE 0
             activeNetWorth ==
                 IF k = 0 THEN 0
                 ELSE scenario.downPayment + yd[k].totalPrincipalPaid
                        + grown + investmentAmount
         IN  IF k = 0 /\ scenario.term < year
             THEN [processed |-> [before.processed EXCEPT ![n].yearlyData =
                      Append(yd,
                        [year |-> year, beginningBalance |-> 0,
                         interestPaidYearly |-> 0, principalPaidYearly |-> 0,
                         endingBalance |-> 0,
                         totalPrincipalPaid |-> lastTotalPrincipalPaid,
                         totalInterestPaid |-> lastTotalInterestPaid,
                         annualCost |-> 0, hasUpdate |-> TRUE,
                         investmentDifference |-> 0,
                         cumulativeInvestmentValue |-> grown,
                         investmentProfitYearly |-> yearlyProfit,
                         totalNetWorth |-> netWorthForEndedYear,
                         netWorthDifference |->
                             netWorthForEndedYear - prevNetWorth,
                         hasPerformance |-> FALSE,
                         performancePercentage |-> 0])],
                   currentCumulativeValues |->
                      [before.currentCumulativeValues EXCEPT
                          ![scenario.name] = grown],
                   maxNetWorthThisYear |->
                      MaxNetWorth(before.maxNetWorthThisYear,
                                  netWorthForEndedYear)]
             ELSE IF k # 0
             THEN [processed |-> [before.processed EXCEPT ![n].yearlyData[k] =
                      [@ EXCEPT !.hasUpdate = TRUE,
                                !.investmentDifference = investmentAmount,
                                !.cumulativeInvestmentValue =
                                    grown + investmentAmount,
                                !.investmentProfitYearly = yearlyProfit,
                                !.totalNetWorth = activeNetWorth,
                                !.netWorthDifference =
                                    activeNetWorth - prevNetWorth]],
                   currentCumulativeValues |->
                      [before.currentCumulativeValues EXCEPT
                          ![scenario.name] = grown + investmentAmount],
                   maxNetWorthThisYear |->
                      MaxNetWorth(before.maxNetWorthThisYear, activeNetWorth)]
             ELSE before

\* Step 3 of a year of the inline computation.
InlinePerformance(processedScenarios, year, maxNetWorthThisYear) ==
    [i \in 1..Len(processedScenarios) |->
        LET scenario == processedScenarios[i]
            k == Find(scenario.yearlyData, year)
        IN  IF k = 0 THEN scenario
            ELSE [scenario EXCEPT !.yearlyData[k] =
                    [@ EXCEPT !.hasPerformance = TRUE,
                              !.performancePercentage =
                                  IF ~maxNetWorthThisYear.finite THEN 0
                                  ELSE IF scenario.yearlyData[k].hasUpdate
                                  THEN Performance(scenario.yearlyData[k]
                                                       .totalNetWorth,
                                                   maxNetWorthThisYear.v)
                                  ELSE 0]]]

\* One pass of the year loop of the inline computation.
InlineYearPass(processedScenarios, currentCumulativeValues, initialInvestmentValues, year) ==
    LET maxAnnualCost ==
            MaxAnnualCost(processedScenarios, Len(processedScenarios), year)
        st == InlineScenarioPasses(
                  [processed |-> processedScenarios,
                   currentCumulativeValues |-> currentCumulativeValues,
                   maxNetWorthThisYear |-> NegInfinity],
                  Len(processedScenarios), year, maxAnnualCost,
                  initialInvestmentValues)
    IN  [processed |-> InlinePerformance(st.processed, year,
                                         st.maxNetWorthThisYear),
         currentCumulativeValues |-> st.currentCumulativeValues]

\* The passes of the year loop for the years from..to, split in halves to
\* bound the depth of the evaluation.
RECURSIVE InlineYears(_, _, _, _)
InlineYears(st, initialInvestmentValues, from, to) ==
    IF from = to
    THEN InlineYearPass(st.processed, st.currentCumulativeValues,
                        initialInvestmentValues, from)
    ELSE LET mid   == (from + to) \div 2
             first == InlineYears(st, initialInvestmentValues, from, mid)
         IN  IF Len(first.processed) = 0 THEN first  \* never: the registry is not empty
             ELSE InlineYears(first, initialInvestmentValues, mid + 1, to)

\* The inline memo: the guard, the copy, the initial values, the year loop.
InlineScenariosWithInvestment(ss, investments, config) ==
    IF config.isNull \/ Len(ss) < 1 THEN <<>>
    ELSE LET copy == DeepCopy(ss).scenarios
             initialInvestmentValues == InitialInvestmentValues(copy, investments)
         IN  InlineYears([processed |-> copy,
                          currentCumulativeValues |-> initialInvestmentValues],
                         initialInvestmentValues, 1, maxYears(ss)).processed

\* The memo's activation: stale (to be computed), in its year loop, or done.
EngineStale ==
    [pc |-> "stale", year |-> 0, horizon |-> 0, processed |-> <<>>,
     shared |-> FALSE, currentCumulativeValues |-> <<>>,
     initialInvestmentValues |-> <<>>, result |-> <<>>, previous |-> <<>>,
     runs |-> 0]

EngineIdle == [EngineStale EXCEPT !.pc = "idle"]

\* What the user types into the Home Price and Initial Investments fields.
HomePriceInputs == {240000}

InvestmentInputs == {0, -24000}

\* The Home Price field's onChange: setHomePrice(newPrice), and the form's
\* default down payment amount (an input of addScenario here).  The registry
\* is not touched.
setHomePrice(newPrice) ==
    /\ Rendered
    /\ homePrice' = newPrice
    /\ UNCHANGED <<loadingConfig, configData, configError, fetchPc, effectRan,
                   initialInvestments, scenarios, call>>

\* The Initial Investments field's onChange.
setInitialInvestments(value) ==
    /\ Rendered
    /\ initialInvestments' = value
    /\ UNCHANGED <<loadingConfig, configData, configError, fetchPc, effectRan,
                   homePrice, scenarios, call>>

Init ==
    /\ Mounted
    /\ am = AmortIdle
    /\ vl = ValidateIdle
    /\ en = EngineIdle

Next ==
    \/ FetchFailed /\ UNCHANGED <<am, vl, en>>
    \/ ParseFailed /\ UNCHANGED <<am, vl, en>>
    \/ \E c \in Configs : ParseSucceeded(c) /\ UNCHANGED <<am, vl, en>>
    \/ FetchFinally /\ UNCHANGED <<am, vl, en>>
    \/ ConfigEffect /\ UNCHANGED <<am, vl, en>>
    \/ \E n \in NameInputs, ty \in DownPaymentTypes, v \in DownPaymentInputs,
          r \in RateInputs, t \in TermInputs :
            addScenario(n, ty, v, r, t) /\ UNCHANGED <<am, vl, en>>
    \/ \E i \in 0..MaxScenarios : removeScenario(i) /\ UNCHANGED <<am, vl, en>>

Spec == Init /\ [][Next]_vars

\* The application with its Home Price field in use as well.
NextHome ==
    \/ Next
    \/ \E p \in HomePriceInputs : setHomePrice(p) /\ UNCHANGED <<am, vl, en>>

SpecHome == Init /\ [][NextHome]_vars

----------------------------------------------------------------------------
(* App: the configuration load alone, over more configurations *)

\* A configured scenario that passes the validator and whose monthly payment
\* is not finite.
EntryOverflow ==
    [name |-> <<"C">>, downPaymentInput |-> 20, downPaymentType |-> "percent",
     interestRate |-> 120000, term |-> 1]

LoadEntries == {EntryA, EntryPaid, EntryBad, EntryOverflow}

\* Most initialScenarios a configuration of the load holds.
MaxInitialScenarios == 3

\* Every list of at most MaxInitialScenarios entries.
LoadLists ==
    UNION { [1..n -> LoadEntries] : n \in 0..MaxInitialScenarios }

LoadConfigs ==
    { [isNull |-> FALSE, homePrice |-> 120000, initialInvestments |-> 60000,
       initialScenarios |-> l] : l \in LoadLists }

\* The promise chain of the fetch runs its then or its catch.
FetchSettles ==
    \/ FetchFailed /\ UNCHANGED <<am, vl, en>>
    \/ ParseFailed /\ UNCHANGED <<am, vl, en>>
    \/ \E c \in LoadConfigs : ParseSucceeded(c) /\ UNCHANGED <<am, vl, en>>

NextLoad ==
    \/ FetchSettles
    \/ FetchFinally /\ UNCHANGED <<am, vl, en>>
    \/ ConfigEffect /\ UNCHANGED <<am, vl, en>>

SpecLoad == Init /\ [][NextLoad]_vars

\* The load under the scheduling of the browser: a pending fetch settles (it
\* is fulfilled or rejected) and a settled promise runs its finally.
SpecLoadFair ==
    /\ SpecLoad
    /\ WF_vars(FetchSettles)
    /\ WF_vars(FetchFinally /\ UNCHANGED <<am, vl, en>>)

----------------------------------------------------------------------------
(* calculateMortgageAmortization, one pass of its year loop per step *)

\* Inputs of the calculator: money in 1/100000 units (480 = 0.0048,
\* 720 = 0.0072, 2520 = 0.0252), rates in 1/100 percent (1200 = 12 %,
\* 120000 = 1200 %, whose twelfth power exceeds FloatMax), terms in years.
\* Every principal is a multiple of 12 * term for each term, so that at a zero
\* rate principal / numberOfPayments is exact.
Principals == {-120000, 0, 480, 720, 2520, 120000, 1200000}

AnnualRates == {-600, 0, 600, 1200, 120000}

Terms == {-1, 0, 1, 2, 10}

\* The end-to-end example, in units of 1/1000: a home price of 500000 with
\* 20 % down, at 4.19 % over 30 years.
ExamplePrice == 500000 * 1000

ExampleCall ==
    [AmortCall(ExamplePrice - getActualDownPayment(ExamplePrice, 20, "percent"),
               419, 30) EXCEPT !.scale = 1000]

\* From the call to the first test of the year loop: the basic validation, the
\* zero-principal case, the monthly payment and its finiteness test.
AmortEnter ==
    /\ am.pc = "call"
    /\ LET mp == MonthlyPaymentOf(am.principal, am.annualRate, am.termYears)
       IN  am' =
             IF InvalidAmortizationInput(am.principal, am.annualRate,
                                         am.termYears)
             THEN [am EXCEPT !.pc = "done", !.result = Null]
             ELSE IF am.principal = 0
             THEN [am EXCEPT !.pc = "done",
                             !.result = ZeroPrincipalResult(am.annualRate)]
             ELSE IF ~mp.finite
             THEN [am EXCEPT !.pc = "done", !.result = Null]
             ELSE [am EXCEPT !.pc = "loop", !.monthlyPayment = mp.v,
                             !.year = 1, !.loop = LoopStart(am.principal)]

\* One pass of the year loop, were the `if (balance <= 0) break` missing.
AmortYearNoBreak ==
    /\ am.pc = "loop"
    /\ am.year <= am.termYears
    /\ LET t == YearBody(am.loop, am.year, am.annualRate, am.termYears,
                         am.monthlyPayment)
       IN  am' = [am EXCEPT !.loop = t, !.year = @ + 1]

\* One pass of the year loop; `break` when the balance is <= 0 after it.
AmortYear ==
    /\ am.pc = "loop"
    /\ am.year <= am.termYears
    /\ LET t == YearBody(am.loop, am.year, am.annualRate, am.termYears,
                         am.monthlyPayment)
       IN  am' = [am EXCEPT !.loop = t,
                            !.pc = IF t.balance <= 0 THEN "break" ELSE "loop",
                            !.year = IF t.balance <= 0 THEN @ ELSE @ + 1]

\* The return after the loop.
AmortReturn ==
    /\ \/ am.pc = "break"
       \/ am.pc = "loop" /\ am.year > am.termYears
    /\ am' = [am EXCEPT !.pc = "done",
                        !.result = [isNull |-> FALSE,
                                    yearlyData |-> am.loop.yearlyData,
                                    monthlyPayment |-> am.monthlyPayment]]

InitAmort ==
    /\ am \in {AmortCall(p, r, t) :
                  p \in Principals, r \in AnnualRates, t \in Terms}
              \cup {ExampleCall}
    /\ vl = ValidateIdle
    /\ en = EngineIdle
    /\ AppIdle

NextAmort ==
    \/ AmortEnter /\ UNCHANGED <<appVars, vl, en>>
    \/ AmortYear /\ UNCHANGED <<appVars, vl, en>>
    \/ AmortReturn /\ UNCHANGED <<appVars, vl, en>>

SpecAmort == InitAmort /\ [][NextAmort]_vars

----------------------------------------------------------------------------
(* validateScenarioInputs, applied to inputs drawn from bounded sets *)

HomePrices == {0, 120000}

ValidatorDownPayments == {-10, 0, 20, 100, 150, 120000, 130000}

ValidatorRates == {-600, 0, 600}

ValidatorTerms == {-1, 0, 2}

ExistingNames ==
    { <<>>, << <<"A">> >>, << DefaultScenarioName(2) >>,
      << <<"A">>, DefaultScenarioName(1) >> }

ProposedNames ==
    { <<>>, <<" ">>, <<"A">>, <<" ", "A", " ">>, <<"B">>,
      DefaultScenarioName(2) }

InitValidate ==
    /\ vl \in { [pc |-> "call", homePrice |-> hp, downPaymentInput |-> d,
                 downPaymentType |-> ty, interestRate |-> r, term |-> t,
                 existingScenarioNames |-> e, newName |-> n,
                 result |-> Invalid("")] :
                 hp \in HomePrices, d \in ValidatorDownPayments,
                 ty \in DownPaymentTypes, r \in ValidatorRates,
                 t \in ValidatorTerms, e \in ExistingNames,
                 n \in ProposedNames }
    /\ am = AmortIdle
    /\ en = EngineIdle
    /\ AppIdle

Validate ==
    /\ vl.pc = "call"
    /\ vl' = [vl EXCEPT !.pc = "done",
                        !.result = validateScenarioInputs(
                            vl.homePrice, vl.downPaymentInput,
                            vl.downPaymentType, vl.interestRate, vl.term,
                            vl.existingScenarioNames, vl.newName)]
    /\ UNCHANGED <<appVars, am, en>>

NextValidate == Validate

SpecValidate == InitValidate /\ [][NextValidate]_vars

----------------------------------------------------------------------------
(* scenariosWithInvestment, one pass of its year loop per step *)

\* How often the memo is computed for the same registry and investments.
MaxRuns == 2

\* The scenario addScenario builds from the form at the given home price.
FormScenario(price, name, downPaymentType, downPaymentValue, interestRate, term) ==
    LET actualDownPayment ==
            getActualDownPayment(price, downPaymentValue, downPaymentType)
    IN  NewScenario(name, actualDownPayment, downPaymentValue,
                    downPaymentType, interestRate, term,
                    calculateMortgageAmortization(price - actualDownPayment,
                                                  interestRate, term))

\* The home price of the registries below: 1.2.
EnginePrice == 120000

\* Scenarios for the registries: 20 % down at 4.19 % over 15 and 30 years,
\* a home paid in full, 50 % down at 0 % over 31 years, and two scenarios
\* of one name (which the configuration load lets in).
Fifteen == FormScenario(EnginePrice, <<"F">>, "percent", 20, 419, 15)

Thirty == FormScenario(EnginePrice, <<"T">>, "percent", 20, 419, 30)

PaidInFull == FormScenario(EnginePrice, <<"P">>, "amount", EnginePrice, 0, 1)

ThirtyOne == FormScenario(EnginePrice, <<"L">>, "percent", 50, 0, 31)

SameNameFifteen == FormScenario(EnginePrice, <<"T">>, "percent", 50, 0, 15)

PaidInFullTwo == FormScenario(EnginePrice, <<"Q">>, "amount", EnginePrice, 0, 2)

EngineRegistries ==
    { <<>>, <<Fifteen>>, <<Fifteen, Thirty>>, <<Thirty, Fifteen>>,
      <<PaidInFull, Thirty>>, <<Fifteen, ThirtyOne>>,
      <<SameNameFifteen, Thirty>>, <<PaidInFull>>,
      <<PaidInFullTwo, Thirty>> }

\* Initial investments: none, exactly the 20 % down payment, more than it.
EngineInvestments == {0, 24000, 60000}

\* The start of the memo: the guard, the copy, the initial values.
EngineEnter ==
    /\ en.pc = "stale"
    /\ IF configData.isNull \/ Len(scenarios) < 1
       THEN en' = [en EXCEPT !.pc = "done", !.previous = en.result,
                             !.result = <<>>, !.runs = @ + 1]
       ELSE LET copy == DeepCopy(scenarios)
                initialInvestmentValues ==
                    InitialInvestmentValues(copy.scenarios, initialInvestments)
            IN  en' = [en EXCEPT
                         !.pc = "loop", !.year = 1,
                         !.horizon = maxYears(scenarios),
                         !.processed = copy.scenarios,
                         !.shared = copy.shared,
                         !.initialInvestmentValues = initialInvestmentValues,
                         !.currentCumulativeValues = initialInvestmentValues]
    /\ UNCHANGED appVars

\* One pass of the year loop.  The passes write into the objects of
\* processedScenarios; were these the registry's objects, the registry would
\* change with them.
EngineYear ==
    /\ en.pc = "loop"
    /\ en.year <= en.horizon
    /\ LET pass == EngineYearPass(en.processed, en.currentCumulativeValues,
                                  en.initialInvestmentValues, en.year)
       IN  /\ en' = [en EXCEPT !.year = @ + 1,
                               !.processed = pass.processed,
                               !.currentCumulativeValues =
                                   pass.currentCumulativeValues]
           /\ scenarios' = IF en.shared THEN pass.processed ELSE scenarios
    /\ UNCHANGED <<loadingConfig, configData, configError, fetchPc, effectRan,
                   homePrice, initialInvestments, call>>

\* return processedScenarios
EngineReturn ==
    /\ en.pc = "loop"
    /\ en.year > en.horizon
    /\ en' = [en EXCEPT !.pc = "done", !.previous = en.result,
                        !.result = en.processed, !.runs = @ + 1]
    /\ UNCHANGED appVars

\* A render computes the memo again for the same registry and investments.
EngineAgain ==
    /\ en.pc = "done"
    /\ en.runs < MaxRuns
    /\ en' = [en EXCEPT !.pc = "stale"]
    /\ UNCHANGED appVars

\* The state after the configuration is loaded and scenarios were added, or
\* after its load failed; the memo is not yet computed.
InitEngine ==
    /\ am = AmortIdle
    /\ loadingConfig = FALSE
    /\ configData \in {NoConfig} \cup
                      {c \in Configs : c.initialScenarios = <<>>}
    /\ configError = IF configData.isNull THEN "Error fetching config.yaml"
                     ELSE NoError
    /\ fetchPc = "settled"
    /\ effectRan = ~configData.isNull
    /\ homePrice = IF configData.isNull THEN 0 ELSE EnginePrice
    /\ initialInvestments \in EngineInvestments
    /\ scenarios \in IF configData.isNull THEN {<<>>} ELSE EngineRegistries
    /\ call = NoCall
    /\ vl = ValidateIdle
    /\ en = EngineStale

NextEngine ==
    \/ EngineEnter /\ UNCHANGED <<am, vl>>
    \/ EngineYear /\ UNCHANGED <<am, vl>>
    \/ EngineReturn /\ UNCHANGED <<am, vl>>
    \/ EngineAgain /\ UNCHANGED <<am, vl>>
    \/ \E v \in InvestmentInputs :
          /\ en.pc = "done"
          /\ setInitialInvestments(v)
          /\ en' = [en EXCEPT !.pc = "stale", !.runs = 0]
          /\ UNCHANGED <<am, vl>>

SpecEngine == InitEngine /\ [][NextEngine]_vars

----------------------------------------------------------------------------
(* Properties *)

\* The stepped activation returns what the function returns.
AmortStepsAgree ==
    am.pc = "done" =>
        am.result = calculateMortgageAmortization(am.principal, am.annualRate,
                                                  am.termYears)

\* A step of the Add handler: the last handler run is addScenario and the
\* step changed its record or the registry.
AddStep ==
    /\ call'.op = "addScenario"
    /\ call' # call \/ scenarios' # scenarios

\* C1: in every reachable state (configuration load, addScenario with an
\* explicit, whitespace-only or empty name, removeScenario) no two scenarios
\* of the registry have the same name.
C1_UniqueNames ==
    \A i, j \in 1..Len(scenarios) :
        i # j => scenarios[i].name # scenarios[j].name

\* C2: an addScenario whose proposed name, trimmed and defaulted to
\* "Scenario N" (N = number of scenarios + 1) when empty, is the name of an
\* existing scenario is rejected with the duplicate-name message and leaves
\* the registry unchanged.
C2_DuplicateNameRejected ==
    [][ ( /\ AddStep
          /\ Includes(Names(scenarios),
                      ResolvedName(Names(scenarios), call'.newName)) )
        => ( /\ call'.alert = MsgDuplicateName
             /\ scenarios' = scenarios ) ]_vars

\* The sum of principalPaidYearly over the first n records.
RECURSIVE SumPrincipalPaid(_, _)
SumPrincipalPaid(yearlyData, n) ==
    IF n = 0 THEN 0
    ELSE SumPrincipalPaid(yearlyData, n - 1) + yearlyData[n].principalPaidYearly

\* The calculator has returned a schedule.
Returned == am.pc = "done" /\ ~am.result.isNull

\* C3: for principal > 0, rate >= 0 and term > 0 with a finite monthly
\* payment, the yearly principalPaidYearly values sum to the principal within
\* 0.01 and the last record's endingBalance is exactly 0.
C3_PrincipalRepaid ==
    (Returned /\ am.principal > 0 /\ am.annualRate >= 0 /\ am.termYears > 0) =>
        LET yd  == am.result.yearlyData
            sum == SumPrincipalPaid(yd, Len(yd))
        IN  /\ sum - am.principal <= am.scale \div 100  \* 0.01
            /\ am.principal - sum <= am.scale \div 100
            /\ yd[Len(yd)].endingBalance = 0

\* C4: in every returned schedule year 1 begins with the principal, every
\* later record begins with the previous record's endingBalance, and
\* endingBalance never increases from one record to the next.
C4_BalanceChain ==
    Returned =>
        LET yd == am.result.yearlyData
        IN  /\ yd[1].beginningBalance = am.principal
            /\ \A i \in 2..Len(yd) :
                 /\ yd[i].beginningBalance = yd[i - 1].endingBalance
                 /\ yd[i].endingBalance <= yd[i - 1].endingBalance

\* C4 witness: a returned schedule of a loan at interest with a second record
\* that ends below the first.
C4_Witness ==
    /\ Returned
    /\ am.annualRate > 0
    /\ Len(am.result.yearlyData) >= 2
    /\ am.result.yearlyData[2].endingBalance
         < am.result.yearlyData[1].endingBalance

\* C5: for principal = 0, any rate >= 0 and term > 0 the calculator returns
\* exactly one record, for year 1, with every monetary field 0, and
\* monthlyPayment 0; it never returns null.
C5_ZeroPrincipal ==
    (am.pc = "done" /\ am.principal = 0 /\ am.annualRate >= 0
        /\ am.termYears > 0) =>
        /\ ~am.result.isNull
        /\ am.result.monthlyPayment = 0
        /\ Len(am.result.yearlyData) = 1
        /\ LET d == am.result.yearlyData[1]
           IN  /\ d.year = 1
               /\ d.beginningBalance = 0 /\ d.endingBalance = 0
               /\ d.interestPaidYearly = 0 /\ d.principalPaidYearly = 0
               /\ d.totalPrincipalPaid = 0 /\ d.totalInterestPaid = 0
               /\ d.annualCost = 0

\* C5 witness: the calculator has returned a schedule for a zero principal at
\* a non-zero rate.
C5_Witness ==
    /\ Returned
    /\ am.principal = 0
    /\ am.annualRate > 0
    /\ Len(am.result.yearlyData) = 1

\* C6: the calculator returns null, and no partial schedule, whenever
\* principal < 0, rate < 0 or term <= 0, also when principal = 0.
C6_InvalidInputsNull ==
    (am.pc = "done"
        /\ (am.principal < 0 \/ am.annualRate < 0 \/ am.termYears <= 0)) =>
        /\ am.result.isNull
        /\ am.result.yearlyData = <<>>

\* C6 witness: null was returned for a zero principal with a negative rate or
\* a non-positive term.
C6_Witness ==
    /\ am.pc = "done"
    /\ am.principal = 0
    /\ am.annualRate < 0 \/ am.termYears <= 0
    /\ am.result.isNull

\* C7: for rate = 0 and principal > 0, monthlyPayment = principal /
\* (term * 12), every record has interestPaidYearly = 0 and annualCost =
\* principalPaidYearly, and every year pays principal / term.
C7_ZeroRateEqualYears ==
    (Returned /\ am.annualRate = 0 /\ am.principal > 0) =>
        /\ am.result.monthlyPayment * am.termYears * 12 = am.principal
        /\ \A i \in 1..Len(am.result.yearlyData) :
             LET d == am.result.yearlyData[i]
             IN  /\ d.interestPaidYearly = 0
                 /\ d.annualCost = d.principalPaidYearly
                 /\ d.principalPaidYearly * am.termYears = am.principal

\* The messages of the seven rules, in the order of the claim.
RuleMessages ==
    <<MsgDuplicateName, MsgPercentRange, MsgNegativeDownPayment,
      MsgDownPaymentTooLarge, MsgZeroPrincipalRate, MsgNegativeRate,
      MsgTermNotPositive>>

\* Which of the seven rules the validator's inputs violate, in the order of
\* the claim; rule 1 is: the name, trimmed and defaulted, is already present.
RuleViolated(v) ==
    LET adp == IF v.downPaymentType = "amount" THEN v.downPaymentInput
               ELSE PercentOf(v.homePrice, v.downPaymentInput)
    IN  << Includes(v.existingScenarioNames,
                    ResolvedName(v.existingScenarioNames, v.newName)),
           v.downPaymentType = "percent"
               /\ (v.downPaymentInput < 0 \/ v.downPaymentInput > 100),
           adp < 0,
           adp > v.homePrice,
           v.homePrice - adp = 0 /\ v.interestRate # 0,
           v.interestRate < 0,
           v.term <= 0 >>

\* C8: when the inputs violate several rules, the validator reports the
\* message of the first violated rule in the order duplicate name, percentage
\* outside [0,100], negative down payment, down payment above the home price,
\* zero principal with non-zero rate, negative rate, non-positive term; and
\* the seven messages are pairwise distinct.
C8_FirstViolatedRule ==
    /\ \A i, j \in 1..7 : i # j => RuleMessages[i] # RuleMessages[j]
    /\ vl.pc = "done" =>
         \A k \in 1..7 :
             (RuleViolated(vl)[k] /\ \A i \in 1..(k - 1) : ~RuleViolated(vl)[i])
                 => vl.result.message = RuleMessages[k]

\* C9: whenever the validator succeeds, the actual down payment is the input
\* in amount mode and homePrice * input / 100 in percent mode, it lies in
\* 0..homePrice, the principal is homePrice - actualDownPayment, rate >= 0,
\* term > 0, and the principal is 0 only if the rate is 0.
C9_ValidResult ==
    (vl.pc = "done" /\ vl.result.isValid) =>
        LET r == vl.result
        IN  /\ vl.downPaymentType = "amount" =>
                 r.actualDownPayment = vl.downPaymentInput
            /\ vl.downPaymentType = "percent" =>
                 r.actualDownPayment * 100 = vl.homePrice * vl.downPaymentInput
            /\ 0 <= r.actualDownPayment
            /\ r.actualDownPayment <= vl.homePrice
            /\ r.principal = vl.homePrice - r.actualDownPayment
            /\ r.principal >= 0
            /\ vl.interestRate >= 0
            /\ vl.term > 0
            /\ r.principal = 0 => vl.interestRate = 0

\* C9 witness: the validator succeeded in percent mode with a down payment
\* strictly between 0 and the home price, at a non-zero rate.
C9_Witness ==
    /\ vl.pc = "done"
    /\ vl.result.isValid
    /\ vl.downPaymentType = "percent"
    /\ 0 < vl.result.actualDownPayment
    /\ vl.result.actualDownPayment < vl.homePrice
    /\ vl.interestRate > 0

\* C10: an addScenario that fails validation, or whose amortization returns
\* null, leaves the registry exactly as it was, and the amortization is not
\* attempted when the validation fails.
C10_FailedAddKeepsRegistry ==
    [][ AddStep =>
          /\ (~call'.validation.isValid \/ call'.calculation = "null")
                => scenarios' = scenarios
          /\ ~call'.validation.isValid => call'.calculation = "not attempted"
      ]_vars

\* C10 witness: an addScenario has passed validation and been refused because
\* the amortization returned null, with a scenario in the registry.
C10_Witness ==
    /\ call.op = "addScenario"
    /\ call.validation.isValid
    /\ call.calculation = "null"
    /\ call.alert = MsgCalculationFailed
    /\ Len(scenarios) > 0

\* C11: a successful addScenario lengthens the registry by exactly one, puts
\* the new scenario last, and leaves every scenario that was present at its
\* position, unchanged in every field.
C11_AddAppends ==
    [][ (AddStep /\ call'.calculation = "returned") =>
          /\ Len(scenarios') = Len(scenarios) + 1
          /\ \A i \in 1..Len(scenarios) : scenarios'[i] = scenarios[i]
          /\ scenarios'[Len(scenarios')].name = call'.validation.scenarioName
          /\ scenarios'[Len(scenarios')].downPayment
               = call'.validation.actualDownPayment
      ]_vars

\* C11 witness: a successful addScenario has put its scenario second.
C11_Witness ==
    /\ call.op = "addScenario"
    /\ call.calculation = "returned"
    /\ Len(scenarios) = 2
    /\ scenarios[2].name = call.validation.scenarioName

\* A step of the Remove handler.
RemoveStep ==
    /\ call'.op = "removeScenario"
    /\ call' # call \/ scenarios' # scenarios

\* C12: removeScenario(i) with 0 <= i < length removes exactly the scenario at
\* position i and keeps the others, unchanged and in their order; with i
\* outside that range the registry is unchanged.
C12_RemoveByPosition ==
    [][ RemoveStep =>
          LET i == call'.index
          IN  IF 0 <= i /\ i < Len(scenarios)
              THEN /\ Len(scenarios') = Len(scenarios) - 1
                   /\ \A j \in 1..i : scenarios'[j] = scenarios[j]
                   /\ \A j \in (i + 1)..Len(scenarios') :
                        scenarios'[j] = scenarios[j + 1]
              ELSE scenarios' = scenarios
      ]_vars

\* C12 witness: the first of two scenarios has been removed and the second
\* is what remains.
C12_Witness ==
    /\ call.op = "removeScenario"
    /\ call.index = 0
    /\ Len(scenarios) = 1

\* C20: a returned schedule numbers its years consecutively from 1, has at
\* most termYears records, and has no record after the first record whose
\* endingBalance is 0.
C20_ScheduleShape ==
    Returned =>
        LET yd == am.result.yearlyData
        IN  /\ \A i \in 1..Len(yd) : yd[i].year = i
            /\ Len(yd) <= am.termYears
            /\ \A i \in 1..(Len(yd) - 1) : yd[i].endingBalance # 0

\* C20 witness: a schedule that stopped before its term, its last record
\* ending at 0.
C20_Witness ==
    /\ Returned
    /\ am.principal > 0
    /\ Len(am.result.yearlyData) < am.termYears
    /\ am.result.yearlyData[Len(am.result.yearlyData)].endingBalance = 0

\* C13: in every state reachable by add, remove and home-price changes, each
\* percent-mode scenario's downPayment is the current homePrice *
\* downPaymentInput / 100, and each scenario's year-1 beginningBalance is the
\* current homePrice minus its downPayment.
C13_FollowsHomePrice ==
    \A i \in 1..Len(scenarios) :
        LET sc == scenarios[i]
        IN  /\ sc.downPaymentType = "percent" =>
                 sc.downPayment = PercentOf(homePrice, sc.downPaymentInput)
            /\ sc.yearlyData[1].beginningBalance = homePrice - sc.downPayment

\* The load of the configuration has ended in a fetch or parse failure.
ConfigFailed == fetchPc = "settled" /\ configError # NoError

\* C17: when the configuration cannot be fetched or parsed the system is not
\* left in an error state: it goes on with an empty scenario list and the
\* default home price and initial investments, and addScenario remains
\* usable (the form is rendered and its handler can run).
C17_ConfigFailureNotFatal ==
    ConfigFailed =>
        /\ scenarios = <<>>
        /\ homePrice = 0
        /\ initialInvestments = 0
        /\ Rendered
        /\ \E n \in NameInputs, ty \in DownPaymentTypes,
              v \in DownPaymentInputs, r \in RateInputs, t \in TermInputs :
                ENABLED addScenario(n, ty, v, r, t)

\* The memo has returned the comparison of a non-empty registry.
Compared == en.pc = "done" /\ Len(scenarios) > 0 /\ ~configData.isNull

\* C14: in the engine output for a non-empty registry every scenario has
\* exactly one record for each year 1..horizon, in ascending order of year,
\* where horizon = max(30, largest term of the registry); also for a loan
\* paid off before its term ends.
C14_DenseYears ==
    Compared =>
        LET horizon == Max(30, maxYears(scenarios))
        IN  /\ Len(en.result) = Len(scenarios)
            /\ \A i \in 1..Len(en.result) :
                 /\ Len(en.result[i].yearlyData) = horizon
                 /\ \A y \in 1..horizon : en.result[i].yearlyData[y].year = y

\* C14 witness: the output for a registry with a zero-principal scenario of
\* term 1, whose records 2..30 the engine made.
C14_Witness ==
    /\ Compared
    /\ \E i \in 1..Len(scenarios) :
         /\ Len(scenarios[i].yearlyData) = 1
         /\ scenarios[i].term = 1
         /\ Len(en.result[i].yearlyData) = 30

\* C15: for every year 1..horizon of the output for a non-empty registry no
\* scenario has performancePercentage > 0, and every scenario with the
\* highest net worth of the year (so at least one) has exactly 0.
C15_PerformanceAtMostZero ==
    Compared =>
        \A y \in 1..Max(30, maxYears(scenarios)) :
            LET rec(i) == en.result[i].yearlyData[Find(en.result[i].yearlyData, y)]
                all == 1..Len(en.result)
            IN  /\ \A i \in all : /\ rec(i).hasPerformance
                                  /\ rec(i).performancePercentage <= 0
                /\ \A i \in all :
                     (\A j \in all : rec(j).totalNetWorth <= rec(i).totalNetWorth)
                        => rec(i).performancePercentage = 0
                /\ \E i \in all : rec(i).performancePercentage = 0

\* C15 witness: a year in which one scenario is behind the best.
C15_Witness ==
    /\ Compared
    /\ Len(en.result) = 2
    /\ \E y \in 1..30 :
         /\ en.result[1].yearlyData[y].performancePercentage < 0
         /\ en.result[2].yearlyData[y].performancePercentage = 0

FifteenAndThirty ==
    /\ Compared
    /\ Len(scenarios) = 2
    /\ {scenarios[1].term, scenarios[2].term} = {15, 30}

\* The output's records of the 15-year scenario.
FifteenData ==
    LET i == CHOOSE j \in 1..2 : scenarios[j].term = 15
    IN  en.result[i].yearlyData

\* C19 as stated: for two scenarios of terms 15 and 30 and any initial
\* investable cash, the 15-year scenario's records for years 16..30 have
\* beginningBalance = endingBalance = 0 and a cumulativeInvestmentValue that
\* is non-zero and changes monotonically from year to year.
C19_PlaceholdersEvolve ==
    FifteenAndThirty =>
        /\ \A y \in 16..30 :
             /\ FifteenData[y].beginningBalance = 0
             /\ FifteenData[y].endingBalance = 0
             /\ FifteenData[y].cumulativeInvestmentValue # 0
             /\ FifteenData[y].cumulativeInvestmentValue
                  # FifteenData[y - 1].cumulativeInvestmentValue
        /\ \/ \A y \in 16..30 : FifteenData[y].cumulativeInvestmentValue
                                  >= FifteenData[y - 1].cumulativeInvestmentValue
           \/ \A y \in 16..30 : FifteenData[y].cumulativeInvestmentValue
                                  <= FifteenData[y - 1].cumulativeInvestmentValue

\* C19 amended: the records for years 16..30 have beginningBalance =
\* endingBalance = 0 and a cumulativeInvestmentValue that never decreases;
\* it is non-zero and strictly increasing when the scenario's
\* cumulativeInvestmentValue of year 15 is positive, and stays 0 when that
\* is 0.
C19_PlaceholdersGrow ==
    FifteenAndThirty =>
        \A y \in 16..30 :
            /\ FifteenData[y].beginningBalance = 0
            /\ FifteenData[y].endingBalance = 0
            /\ FifteenData[y].cumulativeInvestmentValue
                 >= FifteenData[y - 1].cumulativeInvestmentValue
            /\ FifteenData[15].cumulativeInvestmentValue > 0 =>
                 /\ FifteenData[y].cumulativeInvestmentValue # 0
                 /\ FifteenData[y].cumulativeInvestmentValue
                      > FifteenData[y - 1].cumulativeInvestmentValue
            /\ FifteenData[15].cumulativeInvestmentValue = 0 =>
                 FifteenData[y].cumulativeInvestmentValue = 0

\* C19 witness: the 15-year scenario started with investable cash and its
\* placeholder of year 30 holds more than its record of year 15.
C19_Witness ==
    /\ FifteenAndThirty
    /\ FifteenData[15].cumulativeInvestmentValue > 0
    /\ FifteenData[30].cumulativeInvestmentValue
         > FifteenData[15].cumulativeInvestmentValue
    /\ FifteenData[30].beginningBalance = 0

\* The calculator has returned the schedule of the end-to-end example.
ExampleReturned ==
    /\ Returned
    /\ am.scale = 1000
    /\ am.principal = 400000 * am.scale
    /\ am.annualRate = 419
    /\ am.termYears = 30

\* Year 1 of the example: the down payment is 100000, the year begins with a
\* balance of 400000 and ends below it, and more interest than principal is
\* paid in it.
ExampleYearOne ==
    LET first == am.result.yearlyData[1]
    IN  /\ getActualDownPayment(ExamplePrice, 20, "percent") = 100000 * am.scale
        /\ first.year = 1
        /\ first.beginningBalance = 400000 * am.scale
        /\ first.endingBalance < 400000 * am.scale
        /\ first.interestPaidYearly > first.principalPaidYearly
        /\ first.totalInterestPaid > first.totalPrincipalPaid

\* C18 as stated: for a home price of 500000, 20 % down (100000), 4.19 % and
\* 30 years the monthly payment is 487.01 to within 0.50, year 1 begins with
\* a balance of 400000 and ends below it, and interest paid in year 1 exceeds
\* principal paid in year 1.
C18_ExamplePayment487 ==
    ExampleReturned =>
        /\ am.result.monthlyPayment >= 487010 - 500
        /\ am.result.monthlyPayment <= 487010 + 500
        /\ ExampleYearOne

\* C18 amended: the monthly payment is 1953.73 to within 0.50 (the annuity
\* formula on the principal of 400000); the statements about year 1 stand.
C18_ExamplePayment1953 ==
    ExampleReturned =>
        /\ am.result.monthlyPayment >= 1953730 - 500
        /\ am.result.monthlyPayment <= 1953730 + 500
        /\ ExampleYearOne

\* C18 witness: the example's schedule has been returned, with a record for
\* each of its 30 years.
C18_Witness ==
    /\ ExampleReturned
    /\ Len(am.result.yearlyData) = 30
    /\ am.result.monthlyPayment > 0

\* C21: for every principal > 0, in every record the calculator emits the
\* principal paid does not exceed the balance the year began with, the
\* endingBalance is not negative, and the endingBalance is exactly 0 or at
\* least 0.005.
C21_BalanceSnapped ==
    (am.pc \in {"loop", "break", "done"} /\ am.principal > 0) =>
        \A i \in 1..Len(am.loop.yearlyData) :
            LET d == am.loop.yearlyData[i]
            IN  /\ d.principalPaidYearly <= d.beginningBalance
                /\ d.endingBalance >= 0
                /\ d.endingBalance = 0 \/ d.endingBalance >= Threshold

\* Scenario i of the registry is active in year y: its schedule has a record
\* for the year and its term covers the year.
ActiveIn(i, y) ==
    Find(scenarios[i].yearlyData, y) # 0 /\ scenarios[i].term >= y

\* The annual cost of scenario i in a year it is active in.
CostIn(i, y) == scenarios[i].yearlyData[Find(scenarios[i].yearlyData, y)].annualCost

\* The largest annual cost among the scenarios active in year y; 0 if none.
LargestCost(y) ==
    LET costs == {CostIn(i, y) : i \in {j \in 1..Len(scenarios) : ActiveIn(j, y)}}
    IN  IF costs = {} THEN 0
        ELSE CHOOSE c \in costs : \A d \in costs : d <= c

OwnPrevious(i, y) ==
    IF y = 1 THEN Max(0, initialInvestments - scenarios[i].downPayment)
    ELSE en.result[i].yearlyData[y - 1].cumulativeInvestmentValue

\* C23: for every scenario and year of the output, cumulativeInvestmentValue
\* is the same scenario's value of the year before times (1 + investment
\* rate) plus the year's investmentDifference, the value before year 1 being
\* max(0, initial investments - the scenario's down payment).
C23_OwnCumulative ==
    Compared =>
        \A i \in 1..Len(scenarios) : \A y \in 1..Max(30, maxYears(scenarios)) :
            LET r == en.result[i].yearlyData[y]
            IN  r.cumulativeInvestmentValue
                  = MulDiv(OwnPrevious(i, y), 100 + INVESTMENT_RATE, 100)
                      + r.investmentDifference

\* The last record of the schedule of scenario i of the registry.
LastAmortized(i) == scenarios[i].yearlyData[Len(scenarios[i].yearlyData)]

\* C24: in every year of the output in which a scenario is not active (no
\* record of its schedule for the year, or a term below the year) its
\* investmentDifference is 0, its cumulativeInvestmentValue is its value of
\* the year before times (1 + investment rate), and its totalPrincipalPaid
\* and totalInterestPaid are those of the last record of its schedule.
C24_EndedCarriesForward ==
    Compared =>
        \A i \in 1..Len(scenarios) : \A y \in 1..Max(30, maxYears(scenarios)) :
            ~ActiveIn(i, y) =>
                LET r == en.result[i].yearlyData[y]
                IN  /\ r.investmentDifference = 0
                    /\ r.cumulativeInvestmentValue
                         = MulDiv(OwnPrevious(i, y), 100 + INVESTMENT_RATE, 100)
                    /\ r.totalPrincipalPaid = LastAmortized(i).totalPrincipalPaid
                    /\ r.totalInterestPaid = LastAmortized(i).totalInterestPaid

\* C25: in every record of the output, of an active year or a placeholder,
\* totalNetWorth is the scenario's downPayment plus the record's
\* totalPrincipalPaid plus the record's cumulativeInvestmentValue.
C25_NetWorthSum ==
    Compared =>
        \A i \in 1..Len(scenarios) : \A y \in 1..Max(30, maxYears(scenarios)) :
            LET r == en.result[i].yearlyData[y]
            IN  r.totalNetWorth
                  = scenarios[i].downPayment + r.totalPrincipalPaid
                      + r.cumulativeInvestmentValue

\* C25 witness: an output with a record of an active year and a placeholder
\* of an ended scenario, both with principal paid and money invested.
C25_Witness ==
    /\ Compared
    /\ \E i \in 1..Len(scenarios) :
         /\ scenarios[i].downPayment > 0
         /\ ActiveIn(i, 1) /\ ~ActiveIn(i, 30)
         /\ en.result[i].yearlyData[1].totalPrincipalPaid > 0
         /\ en.result[i].yearlyData[1].cumulativeInvestmentValue > 0
         /\ en.result[i].yearlyData[30].totalPrincipalPaid > 0
         /\ en.result[i].yearlyData[30].cumulativeInvestmentValue > 0
         /\ en.result[i].yearlyData[30].beginningBalance = 0

\* C26: for every scenario of the output, netWorthDifference of year 1 is
\* totalNetWorth of year 1 minus (downPayment + max(0, initial investments -
\* downPayment)), and of every later year, active or not, totalNetWorth of
\* the year minus the same scenario's totalNetWorth of the year before.
C26_NetWorthChange ==
    Compared =>
        \A i \in 1..Len(scenarios) : \A y \in 1..Max(30, maxYears(scenarios)) :
            LET r == en.result[i].yearlyData[y]
                previous ==
                    IF y = 1
                    THEN scenarios[i].downPayment
                           + Max(0, initialInvestments - scenarios[i].downPayment)
                    ELSE en.result[i].yearlyData[y - 1].totalNetWorth
            IN  r.netWorthDifference = r.totalNetWorth - previous

\* The entries of a list at the positions in S, in the list's order.
RECURSIVE Chosen(_, _, _)
Chosen(entries, S, n) ==
    IF n = 0 THEN <<>>
    ELSE IF n \in S THEN Append(Chosen(entries, S, n - 1), entries[n])
    ELSE Chosen(entries, S, n - 1)

\* The names of a list of entries.
EntryNames(entries) == [k \in 1..Len(entries) |-> entries[k].name]

\* An entry passes the validator, given the names already in the registry,
\* and the calculator returns a schedule for it.
Passes(price, e, existingNames) ==
    LET validation ==
            validateScenarioInputs(price, e.downPaymentInput, e.downPaymentType,
                                   e.interestRate, e.term, existingNames, e.name)
    IN  /\ validation.isValid
        /\ ~calculateMortgageAmortization(validation.principal, e.interestRate,
                                          e.term).isNull

\* The registry holds a scenario for each entry at a position in S, and for
\* no other, in the order of the configuration.
LoadedFrom(entries, S) ==
    LET chosen == Chosen(entries, S, Len(entries))
    IN  /\ Len(scenarios) = Len(chosen)
        /\ \A k \in 1..Len(chosen) :
             /\ scenarios[k].name = chosen[k].name
             /\ scenarios[k].downPaymentInput = chosen[k].downPaymentInput
             /\ scenarios[k].downPaymentType = chosen[k].downPaymentType
             /\ scenarios[k].interestRate = chosen[k].interestRate
             /\ scenarios[k].term = chosen[k].term

\* C27: once the configuration is loaded the registry holds, in the
\* configuration's order, exactly the initial scenarios that pass validation
\* (against the names of the scenarios loaded before them) and amortization;
\* an entry that fails is skipped and the entries after it are still loaded.
C27_LoadsExactlyTheValid ==
    effectRan =>
        LET entries == configData.initialScenarios
        IN  \E S \in SUBSET (1..Len(entries)) :
                /\ LoadedFrom(entries, S)
                /\ \A k \in 1..Len(entries) :
                     k \in S <=>
                        Passes(configData.homePrice, entries[k],
                               EntryNames(Chosen(entries, S, k - 1)))

\* The promise chain has run its then or its catch.
FetchSettled == fetchPc \in {"finally", "settled"}

C29_NeverDecreases ==
    Compared =>
        \A i \in 1..Len(scenarios) : \A y \in 1..Max(30, maxYears(scenarios)) :
            LET r == en.result[i].yearlyData[y]
            IN  /\ r.cumulativeInvestmentValue >= 0
                /\ r.netWorthDifference >= 0
                /\ y > 1 =>
                      LET before == en.result[i].yearlyData[y - 1]
                      IN  /\ r.cumulativeInvestmentValue
                               >= before.cumulativeInvestmentValue
                          /\ r.totalNetWorth >= before.totalNetWorth

\* C29 witness: an output in which a scenario's value and net worth have
\* grown through its active years and on through its placeholders, from
\* negative initial investments as well.
C29_Witness ==
    /\ Compared
    /\ initialInvestments < 0
    /\ \E i \in 1..Len(scenarios) :
         /\ ActiveIn(i, 15) /\ ~ActiveIn(i, 16)
         /\ en.result[i].yearlyData[15].cumulativeInvestmentValue
              > en.result[i].yearlyData[1].cumulativeInvestmentValue
         /\ en.result[i].yearlyData[30].totalNetWorth
              > en.result[i].yearlyData[15].totalNetWorth

\* C30: for every registry the inline computation of src/src/App.tsx and
\* the refactored one give the same records for every scenario and year,
\* also when a loan is paid off before its term ends.
C30_SameAsInline ==
    Compared =>
        en.result = InlineScenariosWithInvestment(scenarios, initialInvestments,
                                                  configData)

====
